---------------------------- MODULE Spec2Model ----------------------------
(***************************************************************************)
(* A model of the recipe-trace service: the validate-json handler          *)
(* (src/main.py validate_json with normalize_json), the log-trace handler  *)
(* (src/main.py log_trace) and the metrics aggregator                      *)
(* (src/wandb_visualizations.py update_visualizations).                    *)
(*                                                                         *)
(* Contents are strings; the text operations of the handlers (strip,       *)
(* startswith, endswith, re.search, json.loads, json.dumps) are computed   *)
(* character by character.  One behaviour is one call of one entry point:  *)
(* the handlers share no state, so Init draws the request and the actions  *)
(* walk through the handler's code.                                        *)
(***************************************************************************)
EXTENDS Integers, Sequences, FiniteSets, TLC

(***************************************************************************)
(* Text primitives (Python str methods and re.search on literal patterns). *)
(***************************************************************************)
Char(s, i) == SubSeq(s, i, i)

\* str.startswith(p)
StartsWith(s, p) == Len(p) <= Len(s) /\ SubSeq(s, 1, Len(p)) = p

\* str.endswith(p)
EndsWith(s, p) == Len(p) <= Len(s) /\ SubSeq(s, Len(s) - Len(p) + 1, Len(s)) = p

\* s[i:].startswith(p), i counted from 1
StartsWithAt(s, i, p) == i + Len(p) - 1 <= Len(s) /\ SubSeq(s, i, i + Len(p) - 1) = p

\* p in s, and re.search of a pattern without metacharacters
Contains(s, p) == \E i \in 1..(Len(s) - Len(p) + 1) : StartsWithAt(s, i, p)

\* re.search(r'^...') without re.MULTILINE: a match at the start only
SearchAnchored(s, p) == StartsWith(s, p)

\* the characters str.strip() removes (those that occur in the contents)
PyWhitespace == {" ", "\n", "\t", "\r"}

RECURSIVE LStripFrom(_, _)
LStripFrom(s, i) ==
    IF i <= Len(s) /\ Char(s, i) \in PyWhitespace THEN LStripFrom(s, i + 1) ELSE i

RECURSIVE RStripTo(_, _)
RStripTo(s, j) ==
    IF j >= 1 /\ Char(s, j) \in PyWhitespace THEN RStripTo(s, j - 1) ELSE j

\* str.strip()
Strip(s) == SubSeq(s, LStripFrom(s, 1), RStripTo(s, Len(s)))

(***************************************************************************)
(* json.loads: a recursive-descent decoder over the JSON grammar, for the  *)
(* value kinds the contents use (arrays, objects, strings with the         *)
(* escapes \" \\ \/ \n \t \r, integers, true/false/null).  A decoded value *)
(* is a record [t, n, s, a, k, v] tagged by t: "int" (n), "str" (s),       *)
(* "lit" (s: true, false or null), "arr" (a: the items), "obj" (k: the     *)
(* keys in insertion order, v: their values); the fields a kind does not   *)
(* use are empty.  A decoder result is [ok, v, i]: i is the position after *)
(* the value.                                                              *)
(***************************************************************************)
JValue(tag) == [t |-> tag, n |-> 0, s |-> "", a |-> <<>>, k |-> <<>>, v |-> <<>>]
JInt(n) == [JValue("int") EXCEPT !.n = n]
JStr(s) == [JValue("str") EXCEPT !.s = s]
JLit(s) == [JValue("lit") EXCEPT !.s = s]
JArr(a) == [JValue("arr") EXCEPT !.a = a]
JObj(k, v) == [JValue("obj") EXCEPT !.k = k, !.v = v]
JsonWhitespace == {" ", "\n", "\t", "\r"}
Digits == <<"0", "1", "2", "3", "4", "5", "6", "7", "8", "9">>
IsDigit(c) == \E d \in 1..10 : Digits[d] = c
DigitValue(c) == (CHOOSE d \in 1..10 : Digits[d] = c) - 1

NoValue == JValue("none")
DecodeError == [ok |-> FALSE, v |-> NoValue, i |-> 0]
Decoded(val, pos) == [ok |-> TRUE, v |-> val, i |-> pos]

RECURSIVE SkipWs(_, _)
SkipWs(s, i) ==
    IF i <= Len(s) /\ Char(s, i) \in JsonWhitespace THEN SkipWs(s, i + 1) ELSE i

\* the character an escape \c stands for; "" when the escape is not one of
\* the decoder's
Unescape(c) ==
    CASE c = "\"" -> "\""
      [] c = "\\" -> "\\"
      [] c = "/"  -> "/"
      [] c = "n"  -> "\n"
      [] c = "t"  -> "\t"
      [] c = "r"  -> "\r"
      [] OTHER    -> ""

\* py_scanstring, strict: i is the position after the opening quote
RECURSIVE ScanString(_, _, _)
ScanString(s, i, acc) ==
    IF i > Len(s) THEN DecodeError
    ELSE LET c == Char(s, i) IN
         CASE c = "\"" -> Decoded(JStr(acc), i + 1)
           [] c = "\\" ->
                IF i + 1 > Len(s) \/ Unescape(Char(s, i + 1)) = ""
                THEN DecodeError
                ELSE ScanString(s, i + 2, acc \o Unescape(Char(s, i + 1)))
           [] c \in {"\n", "\t", "\r"} -> DecodeError  \* control character
           [] OTHER -> ScanString(s, i + 1, acc \o c)

RECURSIVE ScanDigits(_, _, _)
ScanDigits(s, i, n) ==
    IF i <= Len(s) /\ IsDigit(Char(s, i))
    THEN ScanDigits(s, i + 1, 10 * n + DigitValue(Char(s, i)))
    ELSE [n |-> n, i |-> i]

\* NUMBER_RE: -?(0|[1-9]\d*), an integer
ScanNumber(s, i) ==
    LET neg == Char(s, i) = "-"
        j   == IF neg THEN i + 1 ELSE i
    IN  IF j > Len(s) \/ ~IsDigit(Char(s, j)) THEN DecodeError
        ELSE IF Char(s, j) = "0"
             THEN Decoded(JInt(0), j + 1)
             ELSE LET r == ScanDigits(s, j, 0)
                  IN  Decoded(JInt(IF neg THEN 0 - r.n ELSE r.n), r.i)

\* dict[k] = v: a repeated key keeps its place and takes the later value
DictPut(d, key, val) ==
    IF \E p \in 1..Len(d.k) : d.k[p] = key
    THEN LET p == CHOOSE q \in 1..Len(d.k) : d.k[q] = key
         IN  [d EXCEPT !.v[p] = val]
    ELSE [d EXCEPT !.k = Append(@, key), !.v = Append(@, val)]

RECURSIVE ScanValue(_, _)
RECURSIVE ScanArrayItems(_, _, _)
RECURSIVE ScanObjectPairs(_, _, _)

\* JSONArray after its first value: i is at the position of a value
ScanArrayItems(s, i, acc) ==
    LET r == ScanValue(s, i) IN
    IF ~r.ok THEN DecodeError
    ELSE LET j    == SkipWs(s, r.i)
             acc2 == Append(acc, r.v)
         IN  IF j > Len(s) THEN DecodeError
             ELSE IF Char(s, j) = "]"
                  THEN Decoded(JArr(acc2), j + 1)
                  ELSE IF Char(s, j) = ","
                       THEN ScanArrayItems(s, SkipWs(s, j + 1), acc2)
                       ELSE DecodeError

\* JSONObject: i is at the position of a key's opening quote
ScanObjectPairs(s, i, acc) ==
    IF i > Len(s) \/ Char(s, i) # "\"" THEN DecodeError
    ELSE LET key == ScanString(s, i + 1, "") IN
         IF ~key.ok THEN DecodeError
         ELSE LET c == SkipWs(s, key.i) IN
              IF c > Len(s) \/ Char(s, c) # ":" THEN DecodeError
              ELSE LET r == ScanValue(s, SkipWs(s, c + 1)) IN
                   IF ~r.ok THEN DecodeError
                   ELSE LET j    == SkipWs(s, r.i)
                            acc2 == DictPut(acc, key.v.s, r.v)
                        IN  IF j > Len(s) THEN DecodeError
                            ELSE IF Char(s, j) = "}"
                                 THEN Decoded(acc2, j + 1)
                                 ELSE IF Char(s, j) = ","
                                      THEN ScanObjectPairs(s, SkipWs(s, j + 1), acc2)
                                      ELSE DecodeError

\* scan_once: i is at the first character of a value
ScanValue(s, i) ==
    IF i > Len(s) THEN DecodeError
    ELSE LET c == Char(s, i) IN
         CASE c = "\"" -> ScanString(s, i + 1, "")
           [] c = "[" ->
                LET j == SkipWs(s, i + 1) IN
                IF j <= Len(s) /\ Char(s, j) = "]"
                THEN Decoded(JArr(<<>>), j + 1)
                ELSE ScanArrayItems(s, j, <<>>)
           [] c = "{" ->
                LET j == SkipWs(s, i + 1) IN
                IF j <= Len(s) /\ Char(s, j) = "}"
                THEN Decoded(JObj(<<>>, <<>>), j + 1)
                ELSE ScanObjectPairs(s, j, JObj(<<>>, <<>>))
           [] c = "-" \/ IsDigit(c) -> ScanNumber(s, i)
           [] StartsWithAt(s, i, "true")  -> Decoded(JLit("true"), i + 4)
           [] StartsWithAt(s, i, "false") -> Decoded(JLit("false"), i + 5)
           [] StartsWithAt(s, i, "null")  -> Decoded(JLit("null"), i + 4)
           [] OTHER -> DecodeError

\* json.loads(s): [ok |-> FALSE] stands for json.JSONDecodeError
JsonLoads(s) ==
    LET r == ScanValue(s, SkipWs(s, 1)) IN
    IF r.ok /\ SkipWs(s, r.i) = Len(s) + 1 THEN r ELSE DecodeError

(***************************************************************************)
(* json.dumps(data, indent=2)                                              *)
(***************************************************************************)
RECURSIVE NatToStr(_)
NatToStr(n) ==
    IF n < 10 THEN Digits[n + 1] ELSE NatToStr(n \div 10) \o Digits[(n % 10) + 1]

IntToStr(n) == IF n < 0 THEN "-" \o NatToStr(0 - n) ELSE NatToStr(n)

\* py_encode_basestring_ascii, one character
EscapeChar(c) ==
    CASE c = "\"" -> "\\\""
      [] c = "\\" -> "\\\\"
      [] c = "\n" -> "\\n"
      [] c = "\t" -> "\\t"
      [] c = "\r" -> "\\r"
      [] OTHER    -> c

RECURSIVE EscapeFrom(_, _)
EscapeFrom(s, i) ==
    IF i > Len(s) THEN "" ELSE EscapeChar(Char(s, i)) \o EscapeFrom(s, i + 1)

Quoted(s) == "\"" \o EscapeFrom(s, 1) \o "\""

RECURSIVE Spaces(_)
Spaces(n) == IF n = 0 THEN "" ELSE " " \o Spaces(n - 1)

RECURSIVE Dumps(_, _)
RECURSIVE DumpItems(_, _, _)
RECURSIVE DumpPairs(_, _, _)

\* the items a[p..] of a list, each on a line of its own at `level`
DumpItems(a, p, level) ==
    IF p > Len(a) THEN ""
    ELSE (IF p > 1 THEN ",\n" ELSE "") \o Spaces(2 * level)
         \o Dumps(a[p], level) \o DumpItems(a, p + 1, level)

DumpPairs(d, p, level) ==
    IF p > Len(d.k) THEN ""
    ELSE (IF p > 1 THEN ",\n" ELSE "") \o Spaces(2 * level)
         \o Quoted(d.k[p]) \o ": " \o Dumps(d.v[p], level)
         \o DumpPairs(d, p + 1, level)

Dumps(val, level) ==
    CASE val.t = "int" -> IntToStr(val.n)
      [] val.t = "str" -> Quoted(val.s)
      [] val.t = "lit" -> val.s
      [] val.t = "arr" ->
           IF Len(val.a) = 0 THEN "[]"
           ELSE "[\n" \o DumpItems(val.a, 1, level + 1) \o "\n"
                \o Spaces(2 * level) \o "]"
      [] val.t = "obj" ->
           IF Len(val.k) = 0 THEN "{}"
           ELSE "{\n" \o DumpPairs(val, 1, level + 1) \o "\n"
                \o Spaces(2 * level) \o "}"

JsonDumpsIndent2(val) == Dumps(val, 0)

\* normalize_json: parse and re-serialise; the content itself when it does
\* not parse
normalize_json(content) ==
    LET r == JsonLoads(content) IN
    IF r.ok THEN JsonDumpsIndent2(r.v) ELSE content

(***************************************************************************)
(* validate_json: the checks of src/main.py lines 112-187                  *)
(***************************************************************************)
\* U+0060 cannot be written in a TLA+ string literal: the model writes the
\* backtick as a tilde, a character the handlers treat the same way (no
\* check of the code reads a tilde or a backtick other than in a fence)
Backtick == "~"
Fence == Backtick \o Backtick \o Backtick

StepNames ==
    <<"array_format", "markdown_removed", "intro_text_removed", "json_parsed",
      "structure_validated">>

\* validation_steps as initialised (lines 113-119)
InitialStepsMarkdownSet ==
    [name \in {StepNames[i] : i \in 1..5} |-> name = "markdown_removed"]

InitialSteps == [name \in {StepNames[i] : i \in 1..5} |-> FALSE]

\* validation_steps[name] = True
Passed(steps, name) == [steps EXCEPT ![name] = TRUE]

\* line 122, negated: content.startswith('[') and content.endswith(']')
ArrayFormatEitherBracket(content) == StartsWith(content, "[") \/ EndsWith(content, "]")

ArrayFormatOk(content) == StartsWith(content, "[") /\ EndsWith(content, "]")

\* lines 129-132
markdown_patterns == <<Fence \o "json\n", Fence \o "\n">>

\* lines 134-146
intro_patterns ==
    <<"Here's", "I'll", "Let me", "Here are", "The recipes", "Based on",
      "Here is", "I've", "I have", "Here", "I">>

\* lines 149-152: some pattern is found by re.search
MarkdownFound(content) ==
    \E p \in 1..Len(markdown_patterns) : Contains(content, markdown_patterns[p])

\* lines 157-160
IntroFound(content) ==
    \E p \in 1..Len(intro_patterns) : SearchAnchored(content, intro_patterns[p])

\* line 179
required_fields ==
    <<"name", "prepTime", "cookTime", "totalTime", "ingredients", "steps">>

\* `field in first_recipe` (line 180) by the type of first_recipe: a key of
\* a dict, a substring of a str, an item of a list; "TypeError" for an int,
\* a bool or None, which are not iterable
FieldIn(field, first_recipe) ==
    CASE first_recipe.t = "obj" ->
           IF \E p \in 1..Len(first_recipe.k) : first_recipe.k[p] = field
           THEN "yes" ELSE "no"
      [] first_recipe.t = "str" ->
           IF Contains(first_recipe.s, field) THEN "yes" ELSE "no"
      [] first_recipe.t = "arr" ->
           IF \E p \in 1..Len(first_recipe.a) :
                 first_recipe.a[p].t = "str" /\ first_recipe.a[p].s = field
           THEN "yes" ELSE "no"
      [] OTHER -> "TypeError"

RECURSIVE JoinFrom(_, _, _)
JoinFrom(seq, p, sep) ==
    IF p > Len(seq) THEN ""
    ELSE (IF p > 1 THEN sep ELSE "") \o seq[p] \o JoinFrom(seq, p + 1, sep)

\* sep.join(seq)
Join(seq, sep) == JoinFrom(seq, 1, sep)

\* line 180: the required fields not in first_recipe, in required order
MissingFields(first_recipe) ==
    SelectSeq(required_fields, LAMBDA f : FieldIn(f, first_recipe) = "no")

\* the name of type(first_recipe) in a TypeError message
PyTypeName(val) ==
    CASE val.t = "int" -> "int"
      [] val.t = "str" -> "str"
      [] val.t = "arr" -> "list"
      [] val.t = "obj" -> "dict"
      [] val.s = "null" -> "NoneType"
      [] OTHER -> "bool"

NoException == [type |-> "", message |-> ""]
Raise(type, message) == [type |-> type, message |-> message]

\* line 198: len(data)
RecipeCountOfFirst(data) == Len(data.a[1].k)

RecipeCount(data) == Len(data.a)

\* lines 170-186 on the parsed data: the exception the structure check
\* raises, NoException when it passes
StructureCheck(data) ==
    IF data.t # "arr" THEN Raise("ValueError", "Response must be a JSON array")
    ELSE IF Len(data.a) = 0
    THEN Raise("ValueError", "Response array cannot be empty")
    ELSE LET first_recipe == data.a[1] IN
         IF FieldIn(required_fields[1], first_recipe) = "TypeError"
         THEN Raise("TypeError", "argument of type '" \o PyTypeName(first_recipe)
                                 \o "' is not iterable")
         ELSE IF Len(MissingFields(first_recipe)) = 0 THEN NoException
         ELSE IF first_recipe.t # "obj"
              \* line 183: first_recipe.keys() of a str or a list
              THEN Raise("AttributeError", "'" \o PyTypeName(first_recipe)
                                           \o "' object has no attribute 'keys'")
              ELSE Raise("ValueError", "Missing required fields in recipe: "
                                       \o Join(MissingFields(first_recipe), ", "))

(***************************************************************************)
(* log_trace: the range check of src/main.py line 248                      *)
(***************************************************************************)
MaxResponseTimeMs == 300000

ResponseTimeInRangeExclusive(ms) == ~(ms < 0 \/ ms >= MaxResponseTimeMs)

ResponseTimeInRange(ms) == ~(ms < 0 \/ ms > MaxResponseTimeMs)

(***************************************************************************)
(* update_visualizations (src/wandb_visualizations.py lines 19-100)        *)
(*                                                                         *)
(* An outcome is the validation_data dict; a key the dict does not hold is *)
(* written as "" (error_type, error_message) or NoCount (recipe_count).    *)
(* Rates are kept as fractions [num, den].                                 *)
(***************************************************************************)
NoCount == 0 - 1
current_time == "2026-01-01T00:00:00+00:00"

ReferenceErrorTypes ==
    {"ValueError", "JSONDecodeError", "KeyError", "IndexError", "TypeError",
     "AttributeError"}

\* lines 39-42: error_data['error_type'].value_counts().to_dict()
ErrorTypes(validation_data) ==
    LET failed == {i \in 1..Len(validation_data) : ~validation_data[i].success}
        kinds  == {validation_data[i].error_type : i \in failed}
    IN  [kind \in kinds |->
            Cardinality({i \in failed : validation_data[i].error_type = kind})]

\* lines 50-56: the error_types/<kind> entries of metrics_to_log
ErrorTypeMetrics(error_types) ==
    IF DOMAIN error_types # {}
    THEN error_types
    ELSE [kind \in ReferenceErrorTypes |-> 0]

\* df['validation_duration_ms'].sum() over the rows p..
RECURSIVE DurationSum(_, _)
DurationSum(validation_data, p) ==
    IF p > Len(validation_data) THEN 0
    ELSE validation_data[p].validation_duration_ms + DurationSum(validation_data, p + 1)

\* lines 27-56 and 74-99: the payload handed to wandb.log
MetricsToLog(validation_data) ==
    LET n == Len(validation_data)
        error_types == ErrorTypes(validation_data)
    IN  [kind |-> "validation_metrics",
         validation_success_rate |->
             [num |-> Cardinality({i \in 1..n : validation_data[i].success}), den |-> n],
         step_success_rates |->
             [name \in {StepNames[i] : i \in 1..5} |->
                 [num |-> Cardinality({i \in 1..n :
                                            validation_data[i].validation_steps[name]}),
                  den |-> n]],
         duration_mean_ms |->
             [num |-> DurationSum(validation_data, 1), den |-> n],
         error_types |-> ErrorTypeMetrics(error_types),
         has_total_errors |-> DOMAIN error_types # {},
         total_errors |-> Cardinality({i \in 1..n : ~validation_data[i].success}),
         rows |-> validation_data]

\* What one call update_visualizations(validation_data) does, given how
\* its wandb.log call ends ("ok", or the name of the exception it raises):
\* the exception the call raises and the wandb.log calls it made.  An empty
\* batch makes an empty DataFrame, and df['success'] (line 28) raises
\* KeyError before anything is computed.
update_visualizations(validation_data, wandb_outcome) ==
    IF Len(validation_data) = 0
    THEN [raised |-> Raise("KeyError", "'success'"), logged |-> <<>>]
    ELSE [raised |-> IF wandb_outcome = "ok" THEN NoException
                     ELSE Raise(wandb_outcome, "wandb.log failed"),
          logged |-> <<[payload |-> MetricsToLog(validation_data),
                        delivered |-> wandb_outcome = "ok"]>>]

(***************************************************************************)
(* The inputs                                                              *)
(***************************************************************************)
\* the longest array a content holds
MaxRecipes == 3
\* the largest batch handed to update_visualizations directly
MaxBatch == 3

FullRecipe ==
    "{\"name\":\"Soup\",\"prepTime\":5,\"cookTime\":10,\"totalTime\":15,"
    \o "\"ingredients\":[],\"steps\":[]}"

\* a recipe whose name holds a fence and an escaped line break
FencedNameRecipe ==
    "{\"steps\": [\"" \o Fence \o "json\\n\"], \"name\":\"" \o Fence \o "\\n\","
    \o "\"prepTime\":5,\"cookTime\":10,\"totalTime\":-15,\"ingredients\":[true]}"

FirstElements ==
    {FullRecipe, FencedNameRecipe,
     "{\"name\":\"Soup\",\"steps\":[]}", "{}",
     "\"not\"", "\"name prepTime cookTime totalTime ingredients steps\"",
     "1", "null", "true",
     "[\"a\"]",
     "[\"name\",\"prepTime\",\"cookTime\",\"totalTime\",\"ingredients\",\"steps\"]",
     "oops", Fence \o "json\n1\n" \o Fence}

RestElements == {FullRecipe, " 2", "oops"}

ElementLists ==
    {e \in UNION {[1..n -> FirstElements \cup RestElements] : n \in 0..MaxRecipes} :
        /\ Len(e) > 0 => e[1] \in FirstElements
        /\ \A p \in 2..Len(e) : e[p] \in RestElements}

\* what stands before and after the array
Wrappers ==
    {<<"", "">>, <<" \n", "\n ">>, <<"Here's your array: ", "">>,
     <<"I", "">>, <<Fence \o "json\n", "\n" \o Fence>>,
     <<Fence \o "\n", "\n" \o Fence \o "\n">>, <<"", ",">>,
     <<"{\"recipes\":", "}">>}

ExtraContents ==
    {"", " ", "[", "]", "][", "[1,2,3]", "Here's your array: [1,2,3]",
     "[\"not\", \"a\", \"recipe\"]", "\"[1]\"", "12", "-0",
     "[\n  " \o FullRecipe \o ",\n  " \o FullRecipe \o "\n]",
     "[" \o Fence \o "\n]", "[I]", "Here [1]", "{\"a\": [1]}",
     "[{\"name\":1,\"name\":2,\"prepTime\":5,\"cookTime\":10,\"totalTime\":15,"
        \o "\"ingredients\":[],\"steps\":[]}]"}

Contents ==
    {w[1] \o "[" \o Join(e, ",") \o "]" \o w[2] : w \in Wrappers, e \in ElementLists}
    \cup ExtraContents

\* the clock readings behind validation_duration_ms
Durations == {0, 12}

StepsPrefix(n) == [name \in {StepNames[i] : i \in 1..5} |->
                      \E i \in 1..n : StepNames[i] = name]

Outcome(success, steps, duration, length, count, exception, req) ==
    [success |-> success, validation_steps |-> steps,
     validation_duration_ms |-> duration, content_length |-> length,
     recipe_count |-> count, error_type |-> exception.type,
     error_message |-> exception.message, timestamp |-> current_time,
     session_id |-> req.sessionId, trace_id |-> req.traceId]

NoRequest == [content |-> "", sessionId |-> "", traceId |-> ""]
Requests == [content : Contents, sessionId : {"s1"}, traceId : {"t1"}]

\* outcomes a caller of update_visualizations batches: those of
\* test_visualization_logging (lines 106-192), whose steps need not be a
\* prefix and whose error kinds need not be reference kinds
OutcomePool ==
    LET req == [content |-> "", sessionId |-> "test-session", traceId |-> "test-trace"]
    IN  {Outcome(TRUE, StepsPrefix(5), 100, 500, 2, NoException, req),
         Outcome(FALSE, StepsPrefix(3), 150, 600, NoCount,
                 Raise("ValueError", "Invalid JSON format"), req),
         Outcome(FALSE, [StepsPrefix(5) EXCEPT !["array_format"] = FALSE], 110, 550,
                 NoCount, Raise("FormatError", "Array format issue"), req),
         Outcome(FALSE, [StepsPrefix(5) EXCEPT !["markdown_removed"] = FALSE], 120, 580,
                 NoCount, Raise("MarkdownError", "Markdown present"), req)}

Batches == UNION {[1..n -> OutcomePool] : n \in 0..MaxBatch}

NoTrace ==
    [sessionId |-> "", traceId |-> "", prompt |-> "", response |-> "",
     responseTimeMs |-> 0, promptTokens |-> <<>>, errorTags |-> <<>>]

\* RecipeTrace records (lines 65-88); an Optional field is <<>> for None
Traces ==
    [sessionId : {"s1"}, traceId : {"t1"}, prompt : {"soup?"},
     response : {"[]", FullRecipe},
     responseTimeMs : {0 - 1, 0, 1, 1500, MaxResponseTimeMs - 1, MaxResponseTimeMs,
                       MaxResponseTimeMs + 1},
     promptTokens : {<<>>, <<42>>}, errorTags : {<<>>, <<"timeout">>}]

(***************************************************************************)
(* The state                                                               *)
(***************************************************************************)
VARIABLES
    op,                \* the entry point this call runs
    pc,                \* the handler's position
    telemetry,         \* "reliable": wandb.log returns; "unreliable": it may raise
    request,           \* validate_json's JSONValidationRequest
    trace,             \* log_trace's RecipeTrace
    batch,             \* the argument of a direct update_visualizations call
    content,           \* validate_json's local `content`
    validation_steps,  \* validate_json's local `validation_steps`
    data,              \* validate_json's local `data`
    exc,               \* the exception being propagated
    uvCalls,           \* the batches update_visualizations was called with
    wandbLog,          \* the wandb.log calls made: [payload, delivered]
    response           \* the HTTP response: [status, detail]

vars == <<op, pc, telemetry, request, trace, batch, content, validation_steps,
          data, exc, uvCalls, wandbLog, response>>

NoResponse == [status |-> 0, detail |-> ""]

\* how a wandb.log call may end
WandbOutcomes ==
    IF telemetry = "reliable" THEN {"ok"} ELSE {"ok", "ValueError", "CommError"}

InitCall ==
    /\ op \in {"validate_json", "log_trace", "update_visualizations"}
    /\ pc = "start"
    /\ request \in IF op = "validate_json" THEN Requests ELSE {NoRequest}
    /\ trace \in IF op = "log_trace" THEN Traces ELSE {NoTrace}
    /\ batch \in IF op = "update_visualizations" THEN Batches ELSE {<<>>}
    /\ content = ""
    /\ validation_steps = InitialSteps
    /\ data = NoValue
    /\ exc = NoException
    /\ uvCalls = <<>>
    /\ wandbLog = <<>>
    /\ response = NoResponse

Init == telemetry = "reliable" /\ InitCall
InitFault == telemetry = "unreliable" /\ InitCall

(***************************************************************************)
(* validate_json (src/main.py lines 108-242)                               *)
(***************************************************************************)
\* lines 112-119
Normalize ==
    /\ op = "validate_json" /\ pc = "start"
    /\ content' = normalize_json(Strip(request.content))
    /\ validation_steps' = InitialSteps
    /\ pc' = "array_format"
    /\ UNCHANGED <<op, telemetry, request, trace, batch, data, exc, uvCalls,
                   wandbLog, response>>

\* lines 122-126
CheckArrayFormat ==
    /\ pc = "array_format"
    /\ IF ArrayFormatOk(content)
       THEN /\ validation_steps' = Passed(validation_steps, "array_format")
            /\ pc' = "markdown"
            /\ exc' = exc
       ELSE /\ exc' = Raise("ValueError",
                        "Response must be a JSON array (starts with [ and ends with ])")
            /\ pc' = "except"
            /\ validation_steps' = validation_steps
    /\ UNCHANGED <<op, telemetry, request, trace, batch, content, data, uvCalls,
                   wandbLog, response>>

\* lines 149-154
CheckMarkdown ==
    /\ pc = "markdown"
    /\ IF MarkdownFound(content)
       THEN /\ exc' = Raise("ValueError",
                        "Invalid response format: Response contains markdown code block")
            /\ pc' = "except"
            /\ validation_steps' = validation_steps
       ELSE /\ validation_steps' = Passed(validation_steps, "markdown_removed")
            /\ pc' = "intro"
            /\ exc' = exc
    /\ UNCHANGED <<op, telemetry, request, trace, batch, content, data, uvCalls,
                   wandbLog, response>>

\* lines 157-162
CheckIntroText ==
    /\ pc = "intro"
    /\ IF IntroFound(content)
       THEN /\ exc' = Raise("ValueError",
                        "Invalid response format: Response contains introductory text")
            /\ pc' = "except"
            /\ validation_steps' = validation_steps
       ELSE /\ validation_steps' = Passed(validation_steps, "intro_text_removed")
            /\ pc' = "parse"
            /\ exc' = exc
    /\ UNCHANGED <<op, telemetry, request, trace, batch, content, data, uvCalls,
                   wandbLog, response>>

\* lines 165-168 and 209-220: json.JSONDecodeError is re-raised as a
\* ValueError whose message ends with the decoder's own
ParseJson ==
    /\ pc = "parse"
    /\ LET r == JsonLoads(content) IN
       IF r.ok
       THEN /\ data' = r.v
            /\ validation_steps' = Passed(validation_steps, "json_parsed")
            /\ pc' = "structure"
            /\ exc' = exc
       ELSE /\ exc' = Raise("ValueError", "Invalid JSON format: <decoder message>")
            /\ pc' = "except"
            /\ UNCHANGED <<data, validation_steps>>
    /\ UNCHANGED <<op, telemetry, request, trace, batch, content, uvCalls,
                   wandbLog, response>>

\* lines 170-187
ValidateStructure ==
    /\ pc = "structure"
    /\ LET raised == StructureCheck(data) IN
       IF raised = NoException
       THEN /\ validation_steps' = Passed(validation_steps, "structure_validated")
            /\ pc' = "forward"
            /\ exc' = exc
       ELSE /\ exc' = raised
            /\ pc' = "except"
            /\ validation_steps' = validation_steps
    /\ UNCHANGED <<op, telemetry, request, trace, batch, content, data, uvCalls,
                   wandbLog, response>>

\* lines 189-207: the success outcome goes to update_visualizations, inside
\* the try block
ForwardSuccess ==
    /\ pc = "forward"
    /\ \E duration \in Durations, wandb_outcome \in WandbOutcomes :
          LET validation_data ==
                  Outcome(TRUE, validation_steps, duration, Len(content),
                          RecipeCount(data), NoException, request)
              call == update_visualizations(<<validation_data>>, wandb_outcome)
          IN  /\ uvCalls' = Append(uvCalls, <<validation_data>>)
              /\ wandbLog' = wandbLog \o call.logged
              /\ IF call.raised = NoException
                 THEN /\ response' = [status |-> 200, detail |-> "JSON validation passed"]
                      /\ pc' = "done"
                      /\ exc' = exc
                 ELSE /\ exc' = call.raised
                      /\ pc' = "except"
                      /\ response' = response
    /\ UNCHANGED <<op, telemetry, request, trace, batch, content, validation_steps,
                   data>>

\* lines 222-242: the failure outcome goes to update_visualizations, then
\* HTTPException(400); an exception of that call leaves the handler (500)
HandleException ==
    /\ op = "validate_json" /\ pc = "except"
    /\ \E duration \in Durations, wandb_outcome \in WandbOutcomes :
          LET validation_data ==
                  Outcome(FALSE, validation_steps, duration, Len(request.content),
                          NoCount, exc, request)
              call == update_visualizations(<<validation_data>>, wandb_outcome)
          IN  /\ uvCalls' = Append(uvCalls, <<validation_data>>)
              /\ wandbLog' = wandbLog \o call.logged
              /\ IF call.raised = NoException
                 THEN /\ response' = [status |-> 400, detail |-> exc.message]
                      /\ exc' = NoException
                 ELSE /\ response' = [status |-> 500, detail |-> "Internal Server Error"]
                      /\ exc' = call.raised
    /\ pc' = "done"
    /\ UNCHANGED <<op, telemetry, request, trace, batch, content, validation_steps,
                   data>>

(***************************************************************************)
(* log_trace (src/main.py lines 246-322)                                   *)
(***************************************************************************)
\* lines 250-261 and 263: the metrics of the fields the traces of the
\* model carry; a None value is dropped, which leaves prompt_tokens empty
TraceMetrics(t) ==
    [response_time_ms |-> t.responseTimeMs, prompt_tokens |-> t.promptTokens,
     prompt_length |-> Len(t.prompt), response_length |-> Len(t.response),
     has_error |-> Len(t.errorTags) > 0]

\* lines 265-272 and 294-301: the rows of the artifacts table
TraceArtifacts(t) == <<<<"prompt", t.prompt>>, <<"response", t.response>>>>

\* lines 274-290
TraceMetadata(t) ==
    [session_id |-> t.sessionId, trace_id |-> t.traceId, error_tags |-> t.errorTags]

\* lines 248-249
CheckResponseTime ==
    /\ op = "log_trace" /\ pc = "start"
    /\ IF ResponseTimeInRange(trace.responseTimeMs)
       THEN pc' = "log" /\ exc' = exc
       ELSE /\ exc' = Raise("ValueError", "Invalid response time: "
                                \o IntToStr(trace.responseTimeMs) \o "ms")
            /\ pc' = "except"
    /\ UNCHANGED <<op, telemetry, request, trace, batch, content, validation_steps,
                   data, uvCalls, wandbLog, response>>

\* lines 250-307
LogTrace ==
    /\ pc = "log"
    /\ \E wandb_outcome \in WandbOutcomes :
          /\ wandbLog' = Append(wandbLog,
                 [payload |-> [kind |-> "trace", metrics |-> TraceMetrics(trace),
                               artifacts |-> TraceArtifacts(trace),
                               metadata |-> TraceMetadata(trace),
                               timestamp |-> current_time,
                               session_group |-> trace.sessionId],
                  delivered |-> wandb_outcome = "ok"])
          /\ IF wandb_outcome = "ok"
             THEN /\ response' = [status |-> 200, detail |-> "success"]
                  /\ pc' = "done"
                  /\ exc' = exc
             ELSE /\ exc' = Raise(wandb_outcome, "wandb.log failed")
                  /\ pc' = "except"
                  /\ response' = response
    /\ UNCHANGED <<op, telemetry, request, trace, batch, content, validation_steps,
                   data, uvCalls>>

\* lines 308-322: a ValueError is a 400; anything else is logged as an
\* error event and is a 500 (also when that wandb.log call raises)
HandleTraceException ==
    /\ op = "log_trace" /\ pc = "except"
    /\ IF exc.type = "ValueError"
       THEN /\ response' = [status |-> 400, detail |-> exc.message]
            /\ wandbLog' = wandbLog
       ELSE \E wandb_outcome \in WandbOutcomes :
            /\ wandbLog' = Append(wandbLog,
                   [payload |-> [kind |-> "error", type |-> exc.type,
                                 message |-> exc.message, trace_id |-> trace.traceId],
                    delivered |-> wandb_outcome = "ok"])
            /\ response' = [status |-> 500,
                            detail |-> IF wandb_outcome = "ok" THEN exc.message
                                       ELSE "Internal Server Error"]
    /\ pc' = "done"
    /\ UNCHANGED <<op, telemetry, request, trace, batch, content, validation_steps,
                   data, exc, uvCalls>>

(***************************************************************************)
(* update_visualizations called with a batch                               *)
(* (src/wandb_visualizations.py lines 19-100, as lines 196 and 199 do)     *)
(***************************************************************************)
UpdateVisualizations ==
    /\ op = "update_visualizations" /\ pc = "start"
    /\ \E wandb_outcome \in WandbOutcomes :
          LET call == update_visualizations(batch, wandb_outcome)
          IN  /\ uvCalls' = Append(uvCalls, batch)
              /\ wandbLog' = wandbLog \o call.logged
              /\ exc' = call.raised
    /\ pc' = "done"
    /\ UNCHANGED <<op, telemetry, request, trace, batch, content, validation_steps,
                   data, response>>

Next ==
    \/ Normalize
    \/ CheckArrayFormat
    \/ CheckMarkdown
    \/ CheckIntroText
    \/ ParseJson
    \/ ValidateStructure
    \/ ForwardSuccess
    \/ HandleException
    \/ CheckResponseTime
    \/ LogTrace
    \/ HandleTraceException
    \/ UpdateVisualizations

\* wandb.log returns
Spec == Init /\ [][Next]_vars

\* wandb.log may raise
SpecFault == InitFault /\ [][Next]_vars
(***************************************************************************)
(* The claims                                                              *)
(***************************************************************************)
\* the one outcome of the one update_visualizations call of a validate_json
\* call that made exactly one
TheOutcome == uvCalls[1][1]
OneOutcome == Len(uvCalls) = 1 /\ Len(uvCalls[1]) = 1
ValidateDone == op = "validate_json" /\ pc = "done"

IsPrefix(steps) ==
    \A i \in 1..5 : steps[StepNames[i]] => \A j \in 1..i : steps[StepNames[j]]

\* C1: in every outcome validate-json hands to update_visualizations, the
\* five checkpoints form a prefix: a checkpoint is true only if every
\* checkpoint before it is true.
C1_CheckpointsFormPrefix ==
    op = "validate_json" =>
        \A c \in 1..Len(uvCalls) : \A i \in 1..Len(uvCalls[c]) :
            IsPrefix(uvCalls[c][i].validation_steps)

\* an outcome that passed the parse check and stopped at the structure
\* check was forwarded
C1_Witness ==
    /\ ValidateDone
    /\ \E c \in 1..Len(uvCalls) :
          /\ uvCalls[c][1].validation_steps["json_parsed"]
          /\ ~uvCalls[c][1].validation_steps["structure_validated"]
          /\ ~uvCalls[c][1].success

\* content.strip() does not start with [ or does not end with ]
NotArrayShaped(c) == ~StartsWith(Strip(c), "[") \/ ~EndsWith(Strip(c), "]")

IsRecipeArray(c) ==
    LET r == JsonLoads(c) IN
    /\ r.ok /\ r.v.t = "arr" /\ Len(r.v.a) > 0
    /\ r.v.a[1].t = "obj"
    /\ \A f \in 1..Len(required_fields) :
          \E p \in 1..Len(r.v.a[1].k) : r.v.a[1].k[p] = required_fields[f]

FirstElementNotMapping(c) ==
    LET r == JsonLoads(c) IN
    r.ok /\ r.v.t = "arr" /\ Len(r.v.a) > 0 /\ r.v.a[1].t # "obj"

\* C4: a valid non-empty JSON array whose first element is not a mapping
\* passes the array-format and parse checks and fails the structure check
\* with the error about missing required fields; it is never a success.
C4_NonMappingFirstElementIsStructureError ==
    (ValidateDone /\ FirstElementNotMapping(request.content)) =>
        /\ response.status = 400
        /\ OneOutcome
        /\ ~TheOutcome.success
        /\ TheOutcome.validation_steps["array_format"]
        /\ TheOutcome.validation_steps["json_parsed"]
        /\ ~TheOutcome.validation_steps["structure_validated"]
        /\ StartsWith(TheOutcome.error_message, "Missing required fields")

\* the content begins with one of the lead-in phrases
BeginsWithLeadIn(c) ==
    \E p \in 1..Len(intro_patterns) : StartsWith(Strip(c), intro_patterns[p])

\* C5: a content that begins with a lead-in phrase fails at the intro-text
\* check: array_format and markdown_removed true, intro_text_removed false,
\* and the message says the response contains introductory text.
C5_LeadInFailsAtIntroCheck ==
    (ValidateDone /\ BeginsWithLeadIn(request.content)) =>
        /\ OneOutcome
        /\ ~TheOutcome.success
        /\ TheOutcome.validation_steps["array_format"]
        /\ TheOutcome.validation_steps["markdown_removed"]
        /\ ~TheOutcome.validation_steps["intro_text_removed"]
        /\ Contains(TheOutcome.error_message, "introductory text")

\* the content is a fenced code block: an opening fence with or without a
\* language tag, a line break, a body, a closing fence
IsFencedBlock(c) ==
    /\ StartsWith(Strip(c), Fence \o "json\n") \/ StartsWith(Strip(c), Fence \o "\n")
    /\ EndsWith(Strip(c), Fence)

\* C6: a content wrapped in a fenced code block fails at the markdown
\* check: array_format true, markdown_removed false, and the message says
\* the response contains a markdown code block.
C6_FencedBlockFailsAtMarkdownCheck ==
    (ValidateDone /\ IsFencedBlock(request.content)) =>
        /\ OneOutcome
        /\ ~TheOutcome.success
        /\ TheOutcome.validation_steps["array_format"]
        /\ ~TheOutcome.validation_steps["markdown_removed"]
        /\ Contains(TheOutcome.error_message, "markdown code block")

AggregateDone == op = "update_visualizations" /\ pc = "done"

\* C7: for a non-empty batch, the error histogram handed to wandb.log has
\* an entry for every reference error kind, 0 for each kind that no failed
\* outcome of the batch has.
C7_HistogramHasEveryReferenceKind ==
    (AggregateDone /\ Len(batch) > 0) =>
        /\ Len(wandbLog) = 1
        /\ \A kind \in ReferenceErrorTypes :
              /\ kind \in DOMAIN wandbLog[1].payload.error_types
              /\ (\A i \in 1..Len(batch) :
                     batch[i].success \/ batch[i].error_type # kind)
                 => wandbLog[1].payload.error_types[kind] = 0

\* C8: update_visualizations with an empty batch fails with the empty-batch
\* error and hands nothing to wandb.log.
C8_EmptyBatchRaisesEmptyBatchError ==
    (AggregateDone /\ Len(batch) = 0) =>
        /\ exc.type = "EmptyBatchError"
        /\ Len(wandbLog) = 0

\* C9: every validate-json call makes exactly one update_visualizations
\* call, with a batch of one outcome, on every path, also when the
\* telemetry call of the success path raises.
C9_ExactlyOneOutcomeForwarded == ValidateDone => OneOutcome

ResponseTimeOutOfRange(ms) == ms < 0 \/ ms > MaxResponseTimeMs

\* C10: a trace whose responseTimeMs is below 0 or above 300000 never
\* reaches the wandb.log call and ends with HTTP 400 and the range error,
\* nothing handed to wandb.log; a trace at 0 or at 300000 passes the range
\* check: its record is handed to wandb.log, and the call ends with success
\* when that call returns.
C10_ResponseTimeRange ==
    op = "log_trace" =>
        /\ ResponseTimeOutOfRange(trace.responseTimeMs) =>
              /\ pc # "log"
              /\ Len(wandbLog) = 0
              /\ pc = "done" =>
                    /\ response.status = 400
                    /\ response.detail = "Invalid response time: "
                           \o IntToStr(trace.responseTimeMs) \o "ms"
        /\ (pc = "done" /\ trace.responseTimeMs \in {0, MaxResponseTimeMs}) =>
              /\ Len(wandbLog) >= 1
              /\ wandbLog[1].payload.kind = "trace"
              /\ wandbLog[1].payload.metrics.response_time_ms = trace.responseTimeMs
              /\ wandbLog[1].delivered => response.status = 200

\* a call above the range has ended with the range error, nothing logged
C10_Witness ==
    /\ op = "log_trace" /\ pc = "done"
    /\ trace.responseTimeMs = MaxResponseTimeMs + 1
    /\ response.status = 400
    /\ Len(wandbLog) = 0
\* the kinds of failure the handlers raise themselves: the format, parse,
\* structure and range checks all raise ValueError with their own message
IsInternalFault(type, message) ==
    type # "" /\ (type # "ValueError" \/ message = "wandb.log failed")

\* the validate-json call met a failure that is none of the checks': while
\* inspecting the parsed value, or raised by a telemetry call
ValidateMetInternalFault ==
    \/ \E c \in 1..Len(uvCalls) :
          /\ ~uvCalls[c][1].success
          /\ IsInternalFault(uvCalls[c][1].error_type, uvCalls[c][1].error_message)
    \/ IsInternalFault(exc.type, exc.message)

\* the log-trace call met a failure raised by its wandb.log call
LogTraceMetInternalFault ==
    \E i \in 1..Len(wandbLog) :
        wandbLog[i].payload.kind = "trace" /\ ~wandbLog[i].delivered

\* an error event with a type name, a message and the trace identifier was
\* handed to wandb.log
ErrorEventLogged(trace_id) ==
    \E i \in 1..Len(wandbLog) :
        /\ wandbLog[i].payload.kind = "error"
        /\ wandbLog[i].payload.type # ""
        /\ wandbLog[i].payload.message # ""
        /\ wandbLog[i].payload.trace_id = trace_id

\* C11: in validate-json and in log-trace, a failure that is none of the
\* taxonomy's kinds (a type or attribute fault while inspecting the parsed
\* value, a fault raised by the telemetry call) ends with HTTP 500, never
\* 400, and an error event with the fault's type name, its message and the
\* trace identifier is handed to the telemetry collaborator.
C11_InternalFaultIs500WithErrorEvent ==
    /\ (ValidateDone /\ ValidateMetInternalFault) =>
          response.status = 500 /\ ErrorEventLogged(request.traceId)
    /\ (op = "log_trace" /\ pc = "done" /\ LogTraceMetInternalFault) =>
          response.status = 500 /\ ErrorEventLogged(trace.traceId)
=============================================================================
